---- MODULE Spec2Model ----
(***************************************************************************)
(* The PadCounts fit / embeddings / transform lifecycle of                 *)
(* steam_review_sentiments (cnn_model.py) together with the helpers of     *)
(* utilities.py it calls: token_check, transform_string, transform_all,    *)
(* tokenize_text and tokenize_all (with keras' pad_sequences as it is      *)
(* called there).                                                          *)
(*                                                                         *)
(* Conventions.  A Python value that may be None is a sequence of length   *)
(* at most one: None is <<>>, a present value x is <<x>>.  Lemma strings   *)
(* are small integers whose order stands for the lexicographic order of    *)
(* the strings.  A float32 vector is a sequence of integers.  The caller   *)
(* is single threaded: it issues one call (pc = "ready"), the call runs    *)
(* to its return or to its exception (pc = "returned", ret holds what the  *)
(* caller sees), and the caller takes the result before the next call.     *)
(***************************************************************************)
EXTENDS Integers, Sequences, FiniteSets

\* ---------------------------------------------------------------- bounds
\* Largest number of tokens in one batch of documents handed to a call.
MaxTokens == 3
\* Largest number of documents in one batch.
MaxDocs == 2
\* Largest pad_length handed to the constructor.
MaxPad == 1
\* nlp.vocab.vectors_length of the language object (300 for en_core_web_md).
VecDim == 2

\* ---------------------------------------------------------- Python values
None == <<>>
Some(x) == <<x>>

Max2(a, b) == IF a >= b THEN a ELSE b

\* --------------------------------------------------- the annotator's output
\* Normalised lemma strings.
Words == 1..2
\* str.lower().strip(): raw lemma 3 is the capitalised, space-padded form of
\* word 1 and raw lemma 4 that of word 2; every other lemma is already
\* normalised (5 is the lemma of the punctuation mark "!").
LowerStrip(lemma) == IF lemma \in {3, 4} THEN lemma - 2 ELSE lemma

Tok(l, p, s, a, e) ==
    [lemma |-> l, is_punct |-> p, is_stop |-> s, is_ascii |-> a, ent_type_ |-> e]

\* The tokens the annotator produces in the modelled corpus: word 1, the
\* capitalised form of word 2, and a punctuation mark.
TokenPool ==
    { Tok(1, FALSE, FALSE, TRUE, ""),
      Tok(4, FALSE, FALSE, TRUE, ""),
      Tok(5, TRUE, FALSE, TRUE, "") }

\* Docs: sequences of tokens.
DocsOfLen(n) == [1..n -> TokenPool]

\* Batches: d documents holding at most MaxTokens tokens together.
RECURSIVE BatchesOf(_, _)
BatchesOf(d, t) ==
    IF d = 0 THEN { <<>> }
    ELSE UNION { { <<doc>> \o rest : doc \in DocsOfLen(n), rest \in BatchesOf(d - 1, t - n) }
                 : n \in 0..t }

\* The list / ndarray arguments a caller passes (the empty list included).
Batches == UNION { BatchesOf(d, MaxTokens) : d \in 0..MaxDocs }

\* An argument of a call: a list/ndarray of Docs, or a value that is neither
\* (isinstance(X, (np.ndarray, list)) is false).
Args == { [is_list |-> TRUE, docs |-> b] : b \in Batches }
        \cup { [is_list |-> FALSE, docs |-> <<>>] }

\* ------------------------------------------------------------ utilities.py
\* Mutant of token_check: the WORK_OF_ART override is left out.
token_check_NoEntityOverride(token, stop) ==
    ~ ( \/ token.is_punct
        \/ (token.is_stop /\ stop)
        \/ ~ token.is_ascii )

token_check(token, stop) ==
    \/ token.ent_type_ = "WORK_OF_ART"
    \/ ~ ( \/ token.is_punct
           \/ (token.is_stop /\ stop)
           \/ ~ token.is_ascii )

RECURSIVE transform_string(_, _)
transform_string(doc, no_stop) ==
    IF doc = <<>> THEN <<>>
    ELSE (IF token_check(Head(doc), no_stop)
          THEN << LowerStrip(Head(doc).lemma) >>
          ELSE <<>>) \o transform_string(Tail(doc), no_stop)

transform_all(docs, no_stop) ==
    [i \in 1..Len(docs) |-> transform_string(docs[i], no_stop)]

\* Mutant of MaxLen: the shortest length, len(min(xs, key=len)).
RECURSIVE MaxLen_Min(_)
MaxLen_Min(xs) ==
    IF Len(xs) = 1 THEN Len(xs[1])
    ELSE IF Len(Head(xs)) <= MaxLen_Min(Tail(xs)) THEN Len(Head(xs))
    ELSE MaxLen_Min(Tail(xs))

\* len(max(xs, key=len)) of a non-empty list of sequences.
RECURSIVE MaxLen(_)
MaxLen(xs) ==
    IF Len(xs) = 1 THEN Len(xs[1]) ELSE Max2(Len(Head(xs)), MaxLen(Tail(xs)))

\* The vocabulary_ of CountVectorizer(preprocessor=null_preproc,
\* tokenizer=transform_string, token_pattern=None).fit(X_train): every term
\* transform_string yields for some document, numbered from 0 in sorted order.
\* (A custom preprocessor replaces strip_accents and lowercase; min_df, max_df
\* and max_features keep their defaults, so no term is pruned.)
Terms(X_train) ==
    LET analysed == [d \in 1..Len(X_train) |-> transform_string(X_train[d], TRUE)]
    IN  UNION { { analysed[d][k] : k \in 1..Len(analysed[d]) }
                : d \in 1..Len(X_train) }

Vocabulary(terms) == [w \in terms |-> Cardinality({ v \in terms : v < w })]

\* Mutant of tokenize_text: the unknown index is put behind the vocabulary.
tokenize_text_UnknownAtEnd(text, vectorizer, null_idx) ==
    [k \in 1..Len(text) |->
        IF text[k] \in DOMAIN vectorizer.vocabulary_
        THEN vectorizer.vocabulary_[text[k]]
        ELSE Cardinality(DOMAIN vectorizer.vocabulary_) + 1]

\* Mutant of tokenize_text: a word the vocabulary lacks gets null_idx + 1.
tokenize_text_UnknownShifted(text, vectorizer, null_idx) ==
    [k \in 1..Len(text) |->
        IF text[k] \in DOMAIN vectorizer.vocabulary_
        THEN vectorizer.vocabulary_[text[k]]
        ELSE null_idx + 1]

\* vectorizer.vocabulary_.get(word, null_idx) for each word of text.
tokenize_text(text, vectorizer, null_idx) ==
    [k \in 1..Len(text) |->
        IF text[k] \in DOMAIN vectorizer.vocabulary_
        THEN vectorizer.vocabulary_[text[k]]
        ELSE null_idx]

\* Mutant of LastN: s[:maxlen], what truncating='post' keeps.
FirstN(s, maxlen) ==
    IF Len(s) <= maxlen THEN s ELSE SubSeq(s, 1, maxlen)

\* s[-maxlen:] for maxlen >= 1.
LastN(s, maxlen) ==
    IF Len(s) <= maxlen THEN s ELSE SubSeq(s, Len(s) - maxlen + 1, Len(s))

\* Mutant of PadRow: padding='post', the fill value goes behind the sequence.
PadRow_Post(s, maxlen, value) ==
    [k \in 1..maxlen |->
        IF k <= Len(LastN(s, maxlen)) THEN LastN(s, maxlen)[k] ELSE value]

\* One row of keras pad_sequences(sequences, maxlen=maxlen, value=value) with
\* its defaults padding='pre', truncating='pre': the row starts as maxlen
\* copies of value and the last len(trunc) places receive trunc = s[-maxlen:].
PadRow(s, maxlen, value) ==
    [k \in 1..maxlen |->
        IF k <= maxlen - Len(LastN(s, maxlen))
        THEN value
        ELSE LastN(s, maxlen)[k - (maxlen - Len(LastN(s, maxlen)))]]

pad_sequences(sequences, maxlen, value) ==
    [i \in 1..Len(sequences) |-> PadRow(sequences[i], maxlen, value)]

\* tokenize_all.  texts is a non-empty list; is_str is isinstance(texts[0][0],
\* str), which holds for the lemma arrays of transform_all and fails for
\* Docs (their elements are Tokens).  vectorizer and max_text_len are None or
\* present.  The result is the returned tuple, or the exception raised
\* (None.vocabulary_ is an AttributeError, a negative maxlen a ValueError of
\* np.full).
tokenize_all(texts, is_str, vectorizer, null_idx, pad, max_text_len) ==
    LET tokens == [i \in 1..Len(texts) |->
                      tokenize_text(texts[i], vectorizer[1], null_idx)]
        len == IF max_text_len = None \/ max_text_len = Some(0)
               THEN MaxLen(tokens)
               ELSE max_text_len[1]
    IN  IF Len(texts[1]) = 0
        THEN [outcome |-> "IndexError", texts_tokens |-> <<>>, max_text_len |-> None]
        ELSE IF ~ is_str
        THEN [outcome |-> "ValueError", texts_tokens |-> <<>>, max_text_len |-> None]
        ELSE IF vectorizer = None
        THEN [outcome |-> "AttributeError", texts_tokens |-> <<>>, max_text_len |-> None]
        ELSE IF ~ pad
        THEN [outcome |-> "ok", texts_tokens |-> tokens, max_text_len |-> max_text_len]
        ELSE IF len < 0
        THEN [outcome |-> "ValueError", texts_tokens |-> <<>>, max_text_len |-> None]
        ELSE [outcome |-> "ok",
              texts_tokens |-> pad_sequences(tokens, len, null_idx),
              max_text_len |-> Some(len)]

\* ------------------------------------------------------------ cnn_model.py
VARIABLES
    embeddings,     \* self.__embeddings: None or the matrix, rows 0..n-1
    vectorizer,     \* self.__vectorizer: None or the fitted CountVectorizer
    vocab_size,     \* self.__vocab_size
    vec_size,       \* self.__vec_size
    pad_length,     \* self.__pad_length
    pad_arg,        \* the pad_length argument the constructor was given
    fitted,         \* history: some call of fit has returned normally
    pc,             \* "ready" or "returned"
    ret,            \* what the last call gave its caller
    tc              \* a call of token_check on its own: arguments and result

vars == << embeddings, vectorizer, vocab_size, vec_size, pad_length,
           pad_arg, fitted, pc, ret, tc >>

\* The words of the pretrained table that have a vector.
HasVector == {1}

\* nlp.vocab[str(word)].vector: the pretrained vector, or zeros for a word the
\* table does not hold.
LexemeVector(word) ==
    [k \in 1..VecDim |-> IF word \in HasVector THEN 10 * word + k ELSE 0]

\* np.zeros((rows, cols)).
Zeros(rows, cols) == [r \in 0..(rows - 1) |-> [k \in 1..cols |-> 0]]

\* bool() of a Python int or None held as an option.
Truthy(opt) == opt # None /\ opt[1] # 0

\* bool(ndarray): an array of more than one element has no truth value
\* (ValueError), an empty one is False, a single element decides otherwise.
ArrayTruth(m) ==
    LET rows == Cardinality(DOMAIN m)
        cols == IF rows = 0 THEN 0 ELSE Len(m[0])
    IN  IF rows * cols > 1 THEN "ValueError"
        ELSE IF rows * cols = 0 THEN "False"
        ELSE IF m[0][1] # 0 THEN "True" ELSE "False"

\* What a call hands back.  outcome is "ok" or the exception's class; value is
\* the returned object (None for Python's None).  is_list and n_docs describe
\* the argument the caller passed, and X holds the lemma arrays transform_all
\* made of it when the call got that far.
Ret(op, outcome, value, arg, X) ==
    [op |-> op, outcome |-> outcome, value |-> value,
     is_list |-> arg.is_list, n_docs |-> Len(arg.docs), X |-> X]

NoArg == [is_list |-> FALSE, docs |-> <<>>]

NoRet == Ret("", "", None, NoArg, <<>>)

\* A call of token_check(token, stop): fn is "" before the call and names the
\* module whose token_check ran after it, result is what it returned.
TokenCheckCall(token, stop, fn, result) ==
    [token |-> token, stop |-> stop, fn |-> fn, result |-> result]

NoTokenCheck == TokenCheckCall(Tok(1, FALSE, FALSE, TRUE, ""), TRUE, "", FALSE)

\* PadCounts(nlp, pad_length): pad_length is None or an int.
Init ==
    /\ embeddings = None
    /\ vectorizer = None
    /\ vocab_size = None
    /\ vec_size = None
    /\ pad_length \in { None } \cup { Some(p) : p \in (-1)..MaxPad }
    /\ pad_arg = pad_length
    /\ fitted = FALSE
    /\ pc = "ready"
    /\ ret = NoRet
    /\ tc = NoTokenCheck

\* Mutant of FitArgInvalid: the emptiness test is left out.
FitArgInvalid_TypeOnly(X_train) == ~ X_train.is_list

\* The argument check of fit().
FitArgInvalid(X_train) == ~ X_train.is_list \/ Len(X_train.docs) = 0

\* Mutant of FitVocabSize: no row is reserved for the unknown index.
FitVocabSize_NoUnknownRow(vocabulary_) == Cardinality(DOMAIN vocabulary_)

\* len(self.__vectorizer.get_feature_names()) + 1
FitVocabSize(vocabulary_) == Cardinality(DOMAIN vocabulary_) + 1

\* Mutant of FitPadLength: every fit recomputes pad_length.
FitPadLength_Always(old, X_transformed) == Some(MaxLen(X_transformed))

\* The pad_length fit() leaves behind.
FitPadLength(old, X_transformed) ==
    IF ~ Truthy(old) THEN Some(MaxLen(X_transformed)) ELSE old

\* PadCounts.fit(X_train).  __to_docs reads X[0] (IndexError on an empty
\* list); CountVectorizer.fit raises ValueError on an empty vocabulary, before
\* self.__vectorizer is assigned.
Fit(X_train) ==
    /\ pc = "ready"
    /\ pc' = "returned"
    /\ UNCHANGED << embeddings, pad_arg, tc >>
    /\ IF FitArgInvalid(X_train)
       THEN /\ ret' = Ret("fit", "ValueError", None, X_train, <<>>)
            /\ UNCHANGED << vectorizer, vocab_size, vec_size, pad_length, fitted >>
       ELSE IF Len(X_train.docs) = 0
       THEN /\ ret' = Ret("fit", "IndexError", None, X_train, <<>>)
            /\ UNCHANGED << vectorizer, vocab_size, vec_size, pad_length, fitted >>
       ELSE LET vocabulary_ == Vocabulary(Terms(X_train.docs))
                X_transformed == transform_all(X_train.docs, TRUE)
            IN  IF DOMAIN vocabulary_ = {}
                THEN /\ ret' = Ret("fit", "ValueError", None, X_train, <<>>)
                     /\ UNCHANGED << vectorizer, vocab_size, vec_size, pad_length, fitted >>
                ELSE /\ vectorizer' = Some([vocabulary_ |-> vocabulary_])
                     /\ vocab_size' = Some(FitVocabSize(vocabulary_))
                     /\ vec_size' = Some(VecDim)
                     /\ pad_length' = FitPadLength(pad_length, X_transformed)
                     /\ fitted' = TRUE
                     /\ ret' = Ret("fit", "ok", None, X_train, X_transformed)

\* The loop of embeddings(): self.__embeddings[i + 1] = vector for every
\* (word, i) of vocabulary_, on the zero matrix m.
FillRows(m, vocabulary_) ==
    [r \in DOMAIN m |->
        IF \E w \in DOMAIN vocabulary_ : vocabulary_[w] + 1 = r
        THEN LexemeVector(CHOOSE w \in DOMAIN vocabulary_ : vocabulary_[w] + 1 = r)
        ELSE m[r]]

\* An index the loop writes that the matrix does not have (IndexError).
RowOutOfRange(m, vocabulary_) ==
    \E w \in DOMAIN vocabulary_ : (vocabulary_[w] + 1) \notin DOMAIN m

\* PadCounts.embeddings()
Embeddings ==
    /\ pc = "ready"
    /\ pc' = "returned"
    /\ UNCHANGED << vectorizer, vocab_size, vec_size, pad_length, pad_arg, fitted, tc >>
    /\ IF embeddings # None /\ ArrayTruth(embeddings[1]) = "ValueError"
       THEN /\ ret' = Ret("embeddings", "ValueError", None, NoArg, <<>>)
            /\ UNCHANGED embeddings
       ELSE IF embeddings # None /\ ArrayTruth(embeddings[1]) = "True"
       THEN /\ ret' = Ret("embeddings", "ok", embeddings, NoArg, <<>>)
            /\ UNCHANGED embeddings
       ELSE IF vectorizer = None
       THEN /\ ret' = Ret("embeddings", "NotFittedError", None, NoArg, <<>>)
            /\ UNCHANGED embeddings
       ELSE LET zeros == Zeros(vocab_size[1], vec_size[1])
                voc == vectorizer[1].vocabulary_
            IN  /\ embeddings' = Some(FillRows(zeros, voc))
                /\ ret' = IF RowOutOfRange(zeros, voc)
                          THEN Ret("embeddings", "IndexError", None, NoArg, <<>>)
                          ELSE \* the method ends without a return statement
                               Ret("embeddings", "ok", None, NoArg, <<>>)

\* Mutant of TransformNotFitted: only pad_length is looked at.
TransformNotFitted_PadOnly(v, p) == ~ Truthy(p)

\* The state guard of transform().
TransformNotFitted(v, p) == v = None \/ ~ Truthy(p)

\* PadCounts.transform(X, remove_junk)
Transform(X, remove_junk) ==
    /\ pc = "ready"
    /\ pc' = "returned"
    /\ UNCHANGED << embeddings, vectorizer, vocab_size, vec_size, pad_length,
                    pad_arg, fitted, tc >>
    /\ IF TransformNotFitted(vectorizer, pad_length)
       THEN ret' = Ret("transform", "NotFittedError", None, X, <<>>)
       ELSE IF ~ X.is_list \/ Len(X.docs) = 0
       THEN ret' = Ret("transform", "ValueError", None, X, <<>>)
       ELSE LET texts == IF remove_junk THEN transform_all(X.docs, TRUE) ELSE X.docs
                out == tokenize_all(texts, remove_junk, vectorizer, 0, TRUE, pad_length)
            IN  ret' = Ret("transform", out.outcome,
                           IF out.outcome = "ok"
                           THEN Some(<< out.texts_tokens, out.max_text_len[1] >>)
                           ELSE None,
                           X,
                           IF remove_junk THEN texts ELSE <<>>)

\* The caller takes the result (or catches the exception) and goes on.
Return ==
    /\ pc = "returned"
    /\ pc' = "ready"
    /\ ret' = NoRet
    /\ UNCHANGED << embeddings, vectorizer, vocab_size, vec_size, pad_length,
                    pad_arg, fitted, tc >>

Next ==
    \/ \E X_train \in Args : Fit(X_train)
    \/ Embeddings
    \/ \E X \in Args, remove_junk \in BOOLEAN : Transform(X, remove_junk)
    \/ Return

Spec == Init /\ [][Next]_vars

\* ------------------------------------------- token_check as a pure function
\* Entity classes of the annotator: none, the protected class, another class.
EntTypes == { "", "WORK_OF_ART", "PERSON" }

\* Every combination of a token's flags and entity class.
AllTokens ==
    { Tok(l, p, s, a, e) : l \in Words, p \in BOOLEAN, s \in BOOLEAN,
                           a \in BOOLEAN, e \in EntTypes }

\* token_check of models.py: the same test without the ASCII clause.
models_token_check(token, stop) ==
    \/ token.ent_type_ = "WORK_OF_ART"
    \/ ~ ( \/ token.is_punct
           \/ (token.is_stop /\ stop) )

\* The arguments of one call; the PadCounts instance is left as constructed.
InitTokenCheck ==
    /\ embeddings = None
    /\ vectorizer = None
    /\ vocab_size = None
    /\ vec_size = None
    /\ pad_length = None
    /\ pad_arg = None
    /\ fitted = FALSE
    /\ pc = "ready"
    /\ ret = NoRet
    /\ tc \in { TokenCheckCall(t, stop, "", FALSE) : t \in AllTokens, stop \in BOOLEAN }

\* utilities.token_check(token, stop)
UtilitiesTokenCheck ==
    /\ tc.fn = ""
    /\ tc' = TokenCheckCall(tc.token, tc.stop, "utilities", token_check(tc.token, tc.stop))
    /\ UNCHANGED << embeddings, vectorizer, vocab_size, vec_size, pad_length,
                    pad_arg, fitted, pc, ret >>

\* models.token_check(token, stop)
ModelsTokenCheck ==
    /\ tc.fn = ""
    /\ tc' = TokenCheckCall(tc.token, tc.stop, "models", models_token_check(tc.token, tc.stop))
    /\ UNCHANGED << embeddings, vectorizer, vocab_size, vec_size, pad_length,
                    pad_arg, fitted, pc, ret >>

NextTokenCheck ==
    \/ UtilitiesTokenCheck
    \/ ModelsTokenCheck

SpecTokenCheck == InitTokenCheck /\ [][NextTokenCheck]_vars

\* ------------------------------------------------------------- properties
\* The last call was a transform() that returned its tuple.
TransformOk == ret.op = "transform" /\ ret.outcome = "ok"

\* The padded batch transform() returned.
Batch == ret.value[1][1]

\* The index sequence of document i of the last transform(), before padding.
IndexSeq(i) == tokenize_text(ret.X[i], vectorizer[1], 0)

\* The fitted vocabulary.
Voc == vectorizer[1].vocabulary_

\* C1: for every word w of the fitted vocabulary with index i, encoding w
\* with the fitted vectorizer and unknown index 0 emits i + 1, the row into
\* which embeddings() writes the vector of w.
C1_EncodeShiftsByOne ==
    vectorizer # None =>
        \A w \in DOMAIN Voc : tokenize_text(<< w >>, vectorizer[1], 0) = << Voc[w] + 1 >>

\* C2: on a fitted pipeline every call of embeddings() returns the stored
\* embedding matrix (the first call after building it, later calls from the
\* cache).
C2_EmbeddingsReturnsMatrix ==
    (ret.op = "embeddings" /\ fitted) =>
        /\ ret.outcome = "ok"
        /\ embeddings # None
        /\ ret.value = embeddings

\* A call of embeddings() that went through the building branch.
EmbeddingsBuilt == ret.op = "embeddings" /\ ret.outcome \in { "ok", "IndexError" }

\* C3: the matrix embeddings() builds has vocabulary size + 1 rows of
\* vector_dim columns, row 0 is zero, and row i + 1 holds the pretrained
\* vector of the word with index i, or zeros when the word has none; building
\* raises nothing.
C3_MatrixRows ==
    EmbeddingsBuilt =>
        /\ ret.outcome = "ok"
        /\ embeddings # None
        /\ DOMAIN embeddings[1] = 0..Cardinality(DOMAIN Voc)
        /\ \A r \in DOMAIN embeddings[1] : Len(embeddings[1][r]) = VecDim
        /\ \A k \in 1..VecDim : embeddings[1][0][k] = 0
        /\ \A w \in DOMAIN Voc :
              /\ embeddings[1][Voc[w] + 1] = LexemeVector(w)
              /\ w \notin HasVector =>
                    \A k \in 1..VecDim : embeddings[1][Voc[w] + 1][k] = 0

\* C3 witness: a matrix was built for a vocabulary holding a word with a
\* pretrained vector and a word without one.
C3_Witness ==
    /\ EmbeddingsBuilt
    /\ \E w \in DOMAIN Voc : w \in HasVector
    /\ \E w \in DOMAIN Voc : w \notin HasVector

\* C4: transform() or embeddings() on an instance on which no fit has
\* succeeded raises NotFittedError, whatever pad_length the constructor got
\* and whatever the argument.
C4_UnfitRaisesNotFitted ==
    (ret.op \in { "transform", "embeddings" } /\ ~ fitted) =>
        ret.outcome = "NotFittedError"

\* C4 witness: transform() of a non-empty list on a never fitted instance
\* that was constructed with a pad_length.
C4_Witness ==
    /\ ret.op = "transform"
    /\ ~ fitted
    /\ Truthy(pad_arg)
    /\ ret.is_list
    /\ ret.n_docs > 0

\* C5: fit() of an empty argument, or of one that is no list or array, raises
\* ValueError in every state of the pipeline.
C5_FitRejectsBadArgument ==
    (ret.op = "fit" /\ (~ ret.is_list \/ ret.n_docs = 0)) =>
        ret.outcome = "ValueError"

\* C5 witness: fit([]) on an already fitted pipeline.
C5_Witness ==
    /\ ret.op = "fit"
    /\ ret.is_list
    /\ ret.n_docs = 0
    /\ fitted

\* C6 as claimed: an index sequence longer than pad_length gives a row of
\* length pad_length equal to the sequence's first pad_length entries.
C6_TruncationKeepsHead ==
    TransformOk =>
        \A i \in 1..Len(Batch) :
            Len(IndexSeq(i)) > pad_length[1] =>
                /\ Len(Batch[i]) = pad_length[1]
                /\ Batch[i] = SubSeq(IndexSeq(i), 1, pad_length[1])

\* C6 amended: an index sequence longer than pad_length gives a row of length
\* pad_length equal to the sequence's last pad_length entries.
C6_TruncationKeepsTail ==
    TransformOk =>
        \A i \in 1..Len(Batch) :
            Len(IndexSeq(i)) > pad_length[1] =>
                /\ Len(Batch[i]) = pad_length[1]
                /\ Batch[i] = SubSeq(IndexSeq(i),
                                     Len(IndexSeq(i)) - pad_length[1] + 1,
                                     Len(IndexSeq(i)))

\* C6 witness: a transformed document longer than pad_length whose head and
\* tail differ.
C6_Witness ==
    /\ TransformOk
    /\ \E i \in 1..Len(Batch) :
          /\ Len(IndexSeq(i)) > pad_length[1]
          /\ SubSeq(IndexSeq(i), 1, pad_length[1])
               # SubSeq(IndexSeq(i), Len(IndexSeq(i)) - pad_length[1] + 1,
                        Len(IndexSeq(i)))

\* C7: an index sequence shorter than pad_length gives a row of length
\* pad_length whose last len(sequence) entries are the sequence, in order,
\* and whose leading entries are the fill value 0.
C7_PaddingInFront ==
    TransformOk =>
        \A i \in 1..Len(Batch) :
            LET n == Len(IndexSeq(i)) IN
            n < pad_length[1] =>
                /\ Len(Batch[i]) = pad_length[1]
                /\ \A k \in 1..n : Batch[i][pad_length[1] - n + k] = IndexSeq(i)[k]
                /\ \A k \in 1..(pad_length[1] - n) : Batch[i][k] = 0

\* C7 witness: a transformed document shorter than pad_length, not empty, with
\* an index other than the fill value.
C7_Witness ==
    /\ TransformOk
    /\ \E i \in 1..Len(Batch) :
          /\ Len(IndexSeq(i)) < pad_length[1]
          /\ \E k \in 1..Len(IndexSeq(i)) : IndexSeq(i)[k] # 0

C9_PadLengthNeverChanges ==
    [][ pad_length # None => pad_length' = pad_length ]_vars

\* C10: a token the fitted vocabulary lacks encodes to the unknown index 0,
\* and a transformed document all of whose surviving tokens are out of the
\* vocabulary gives a row of pad_length zeros.
C10_UnknownIsZero ==
    /\ vectorizer # None =>
          \A w \in (Words \cup { 5 }) \ DOMAIN Voc :
              tokenize_text(<< w >>, vectorizer[1], 0) = << 0 >>
    /\ TransformOk =>
          \A i \in 1..Len(Batch) :
              (\A k \in 1..Len(ret.X[i]) : ret.X[i][k] \notin DOMAIN Voc) =>
                  Batch[i] = [k \in 1..pad_length[1] |-> 0]

\* C10 witness: a transformed document that is not empty and holds only words
\* out of the vocabulary.
C10_Witness ==
    /\ TransformOk
    /\ \E i \in 1..Len(Batch) :
          /\ Len(ret.X[i]) > 0
          /\ \A k \in 1..Len(ret.X[i]) : ret.X[i][k] \notin DOMAIN Voc

\* The token of the token_check call is of the protected entity class.
Protected == tc.token.ent_type_ = "WORK_OF_ART"

\* C11 as claimed: token_check returns true for a WORK_OF_ART token, and
\* otherwise exactly when the token is not punctuation and not (stop and a
\* stop word), whatever its other flags.
C11_TokenCheckIgnoresAscii ==
    tc.fn # "" =>
        tc.result = ( \/ Protected
                      \/ (~ tc.token.is_punct /\ ~ (tc.stop /\ tc.token.is_stop)) )

\* C11 amended: token_check of utilities.py returns true for a WORK_OF_ART
\* token, and otherwise exactly when the token is not punctuation, not (stop
\* and a stop word) and pure ASCII; token_check of models.py is the same
\* without the ASCII condition.
C11_TokenCheckDropsNonAscii ==
    /\ tc.fn = "utilities" =>
          tc.result = ( \/ Protected
                        \/ /\ ~ tc.token.is_punct
                           /\ ~ (tc.stop /\ tc.token.is_stop)
                           /\ tc.token.is_ascii )
    /\ tc.fn = "models" =>
          tc.result = ( \/ Protected
                        \/ /\ ~ tc.token.is_punct
                           /\ ~ (tc.stop /\ tc.token.is_stop) )

\* C11 witness: utilities.token_check dropped a token that is neither
\* protected, punctuation nor a stop word, because it is not ASCII.
C11_Witness ==
    /\ tc.fn = "utilities"
    /\ ~ Protected
    /\ ~ tc.token.is_punct
    /\ ~ tc.token.is_stop
    /\ ~ tc.token.is_ascii
    /\ ~ tc.result

\* C12: once a fit() has succeeded, neither transform() nor embeddings()
\* raises NotFittedError again, whatever calls (failing fits included) came
\* in between.
C12_StaysFit ==
    (fitted /\ ret.op \in { "transform", "embeddings" }) =>
        ret.outcome # "NotFittedError"

\* C12 witness: transform() returned a batch on an instance that was fitted
\* and whose embeddings were built.
C12_Witness ==
    /\ fitted
    /\ embeddings # None
    /\ TransformOk

\* C13: whenever a matrix is stored, it has one row more than the current
\* vocabulary has words.
C13_MatrixMatchesVocabulary ==
    embeddings # None =>
        Cardinality(DOMAIN embeddings[1]) = Cardinality(DOMAIN Voc) + 1

\* The last call was a transform() of a non-empty list with remove_junk left
\* True (X holds one lemma array per document) on a fitted pipeline whose
\* pad_length is positive.
TransformOfDocs ==
    /\ ret.op = "transform"
    /\ fitted
    /\ pad_length[1] > 0
    /\ ret.is_list
    /\ ret.n_docs > 0
    /\ Len(ret.X) = ret.n_docs

\* C14: transform() of a non-empty list on a fitted pipeline returns, without
\* error, one row of length pad_length per document, in order; a document
\* without surviving tokens, in any position, gives a row of zeros.
C14_OneRowPerDocument ==
    TransformOfDocs =>
        /\ ret.outcome = "ok"
        /\ Len(Batch) = ret.n_docs
        /\ \A i \in 1..ret.n_docs :
              /\ Batch[i] = PadRow(IndexSeq(i), pad_length[1], 0)
              /\ Len(Batch[i]) = pad_length[1]
              /\ Len(ret.X[i]) = 0 => \A k \in 1..pad_length[1] : Batch[i][k] = 0

\* C15: every index transform() returns is a row of the matrix embeddings()
\* builds for the fitted vocabulary: it lies in 0..vocabulary size.
C15_IndicesAreRows ==
    TransformOk =>
        \A i \in 1..Len(Batch) : \A k \in 1..Len(Batch[i]) :
            /\ 0 <= Batch[i][k]
            /\ Batch[i][k] <= Cardinality(DOMAIN Voc)
            /\ Batch[i][k] \in DOMAIN FillRows(Zeros(vocab_size[1], vec_size[1]), Voc)

\* C15 witness: a returned batch holding the largest index the encoder
\* emits for a vocabulary of more than one word, next to the index 0.
C15_Witness ==
    /\ TransformOk
    /\ Cardinality(DOMAIN Voc) > 1
    /\ \E i \in 1..Len(Batch) : \E k \in 1..Len(Batch[i]) :
          Batch[i][k] = Cardinality(DOMAIN Voc) - 1
    /\ \E i \in 1..Len(Batch) : \E k \in 1..Len(Batch[i]) : Batch[i][k] = 0

====
